---- MODULE Spec2Model ----
(***************************************************************************)
(* A model of src/salary.py: the function compute_salary_equity_tradeoff  *)
(* and the module-level driver loop that sweeps the share price.          *)
(*                                                                         *)
(* Python numbers are modelled as the interpreter computes them: the      *)
(* monetary amounts and counts are Python ints (exact), base_percentage   *)
(* and every result of a true division `/` are IEEE-754 binary64 floats,  *)
(* kept as sign, 53-bit significand and exponent and rounded to nearest,  *)
(* ties to even, at every division; round() is Python's round-half-even.  *)
(***************************************************************************)
EXTENDS Integers, Sequences, FiniteSets, TLC

(***************************************************************************)
(* binary64 arithmetic.  A significand is a natural below 2^54 held as    *)
(* <<hi, lo>> = hi * 2^27 + lo, so that every intermediate fits a 32-bit  *)
(* integer.                                                                *)
(***************************************************************************)
Limb == 2^27

BigOfNat(n) == <<n \div Limb, n % Limb>>

BigZero == <<0, 0>>

BigGeq(a, b) == a[1] > b[1] \/ (a[1] = b[1] /\ a[2] >= b[2])

BigSub(a, b) ==
    IF a[2] >= b[2] THEN <<a[1] - b[1], a[2] - b[2]>>
                    ELSE <<a[1] - b[1] - 1, a[2] + Limb - b[2]>>

BigDouble(a) == <<2 * a[1] + (2 * a[2]) \div Limb, (2 * a[2]) % Limb>>

BigHalf(a) == <<a[1] \div 2, (a[1] % 2) * (Limb \div 2) + a[2] \div 2>>

BigOdd(a) == a[2] % 2 = 1

BigInc(a) == IF a[2] + 1 = Limb THEN <<a[1] + 1, 0>> ELSE <<a[1], a[2] + 1>>

\* The significand of a normal binary64 has exactly 53 bits: 2^52 <= m < 2^53.
MantHi == 2^25

\* 2^k as a significand pair, 0 <= k < 54.
BigPow2(k) == IF k >= 27 THEN <<2^(k - 27), 0>> ELSE <<0, 2^k>>

\* a * 2^k, for a * 2^k < 2^54.
BigShiftLeft(a, k) ==
    IF k >= 27 THEN <<a[2] * 2^(k - 27), 0>>
               ELSE <<a[1] * 2^k + a[2] \div 2^(27 - k), (a[2] % 2^(27 - k)) * 2^k>>

\* The number of bits of n, 0 < n < 2^27.
BitLength(n) == CHOOSE k \in 1..27 : 2^(k - 1) <= n /\ n < 2^k

BigBitLength(a) == IF a[1] > 0 THEN 27 + BitLength(a[1]) ELSE BitLength(a[2])

\* Shift a non-zero significand left until it has 53 bits (2^52 <= m < 2^53),
\* lowering the exponent by the number of shifts.
Normalize(a, e) ==
    LET k == 53 - BigBitLength(a)
    IN  [m |-> BigShiftLeft(a, k), e |-> e - k]

FloatZero == [s |-> 1, m |-> BigZero, e |-> 0]

IsZero(x) == x.m = BigZero

\* int -> float conversion (exact for |n| < 2^31).
IntToFloat(n) ==
    IF n = 0 THEN FloatZero
    ELSE LET a == IF n < 0 THEN -n ELSE n
             r == Normalize(BigOfNat(a), 0)
         IN  [s |-> IF n < 0 THEN -1 ELSE 1, m |-> r.m, e |-> r.e]

\* One step of binary long division of a remainder st.r < d: the next quotient
\* bit is shifted into st.q and the remainder doubled and reduced.
DivStep(st, d) ==
    LET r2 == BigDouble(st.r)
        q2 == BigDouble(st.q)
    IN  IF BigGeq(r2, d) THEN [q |-> BigInc(q2), r |-> BigSub(r2, d)]
                         ELSE [q |-> q2, r |-> r2]

\* j steps of long division: q = floor(st.r * 2^j / d) and the last remainder.
\* Each step's result is computed before the next step starts from it.
RECURSIVE DivLoop(_, _, _)
DivLoop(st, d, j) ==
    IF j = 0 THEN st
    ELSE CHOOSE res \in {DivLoop(s, d, j - 1) : s \in {DivStep(st, d)}} : TRUE

\* Round a 54-bit quotient (53 bits and a guard bit) with remainder r to 53
\* bits, to nearest, ties to even; j is the number of division steps taken.
RoundQuotient(res, j) ==
    LET m0 == BigHalf(res.q)
        up == BigOdd(res.q) /\ (res.r # BigZero \/ BigOdd(m0))
        m1 == IF up THEN BigInc(m0) ELSE m0
    IN  IF m1[1] >= 2 * MantHi THEN [m |-> BigHalf(m1), e |-> 2 - j]
                               ELSE [m |-> m1, e |-> 1 - j]

\* The correctly rounded quotient of two 53-bit significands.
MantDiv(n, d) ==
    IF BigGeq(n, d)
    THEN CHOOSE z \in {RoundQuotient(res, 53) :
                    res \in {DivLoop([q |-> <<0, 1>>, r |-> BigSub(n, d)], d, 53)}} : TRUE
    ELSE CHOOSE z \in {RoundQuotient(res, 54) :
                    res \in {DivLoop([q |-> BigZero, r |-> n], d, 54)}} : TRUE

\* x / y for non-zero floats held in u and v.
FloatQuotient(u, v) ==
    LET r == MantDiv(u.m, v.m)
    IN  [s |-> u.s * v.s, m |-> r.m, e |-> r.e + u.e - v.e]

\* float / float, y non-zero (x / 0.0 raises ZeroDivisionError at the caller).
FloatDiv(x, y) ==
    CHOOSE z \in {IF IsZero(u) THEN FloatZero ELSE FloatQuotient(u, v) :
                  u \in {x}, v \in {y}} : TRUE

\* int / int and int / float: Python converts the int operands to float and divides.
PyTrueDivII(a, b) == FloatDiv(IntToFloat(a), IntToFloat(b))

PyTrueDivIF(a, y) == FloatDiv(IntToFloat(a), y)

\* The float a decimal literal num/den denotes (the nearest binary64).
FloatLiteral(num, den) == PyTrueDivII(num, den)

\* floor(a / 2^k) of a 53-bit significand, for a quotient that fits an int (k >= 22).
BigShiftRight(a, k) ==
    IF k >= 27 THEN a[1] \div 2^(k - 27)
               ELSE a[1] * 2^(27 - k) + a[2] \div 2^k

\* a mod 2^k, the bits BigShiftRight drops.
BigLowBits(a, k) ==
    IF k >= 27 THEN <<a[1] % 2^(k - 27), a[2]>> ELSE <<0, a[2] % 2^k>>

\* Variant of RoundHalfEven: exact ties are rounded away from zero.
RoundHalfEven_halfAway(v) ==
    IF -v.e >= 55 THEN 0
    ELSE LET k    == -v.e
             fl   == BigShiftRight(v.m, k)
             up   == BigGeq(BigLowBits(v.m, k), BigPow2(k - 1))
         IN  v.s * (IF up THEN fl + 1 ELSE fl)

\* The nearest int to a non-zero v = m * 2^e, e < 0, exact ties to the even int;
\* below 2^-2 every value rounds to 0.
RoundHalfEven(v) ==
    IF -v.e >= 55 THEN 0
    ELSE LET k    == -v.e
             fl   == BigShiftRight(v.m, k)
             rem  == BigLowBits(v.m, k)
             half == BigPow2(k - 1)
             up   == IF rem = half THEN fl % 2 = 1 ELSE BigGeq(rem, half)
         IN  v.s * (IF up THEN fl + 1 ELSE fl)

\* Python's round(x) of a float.
PyRound(x) ==
    CHOOSE n \in {IF IsZero(v) THEN 0 ELSE RoundHalfEven(v) : v \in {x}} : TRUE

(***************************************************************************)
(* State.  cfg, base_equity_value, total_shares, i and results are the     *)
(* parameters and locals of compute_salary_equity_tradeoff and pc its      *)
(* position; df, share_price and idx are the module's globals, dpc the     *)
(* driver's position and out what has been printed; calls records every    *)
(* call made and what it returned.                                         *)
(***************************************************************************)
VARIABLES cfg, pc, base_equity_value, total_shares, i, results,
          df, share_price, idx, dpc, out, calls

locals == <<base_equity_value, total_shares, i, results>>

driver == <<df, share_price, idx, dpc, out>>

vars == <<cfg, pc, base_equity_value, total_shares, i, results,
          df, share_price, idx, dpc, out, calls>>

(***************************************************************************)
(* compute_salary_equity_tradeoff: its default arguments and the           *)
(* statements of its body, one operator per statement.                     *)
(***************************************************************************)
DefaultBaseSalary == 42000

DefaultBaseShares == 3142

DefaultBasePercentage == FloatLiteral(8, 10)

DefaultSharePrice == 220

DefaultSalaryIncrement == 1000

DefaultSteps == 7

DefaultVestingYears == 4

MonthsPerYear == 12

\* The arguments of a call that passes share_price and defaults the rest.
DefaultConfig(price) ==
    [base_salary      |-> DefaultBaseSalary,
     base_shares      |-> DefaultBaseShares,
     base_percentage  |-> DefaultBasePercentage,
     share_price      |-> price,
     salary_increment |-> DefaultSalaryIncrement,
     steps            |-> DefaultSteps,
     vesting_years    |-> DefaultVestingYears]

\* base_equity_value = base_shares * share_price
BaseEquityValue(c) == c.base_shares * c.share_price

\* total_shares = base_shares / base_percentage
TotalShares(c) == PyTrueDivIF(c.base_shares, c.base_percentage)

\* Variants of InRange: the bound included, and a body that runs at least once.
InRange_inclusive(k, steps) == k >= 0 /\ k <= steps

InRange_atLeastOnce(k, steps) == k = 0 \/ (k >= 0 /\ k < steps)

\* range(steps) yields 0 .. steps-1, nothing when steps <= 0: is k one of them?
InRange(k, steps) == k >= 0 /\ k < steps

\* salary = base_salary + i * salary_increment
Salary(c, k) == c.base_salary + k * c.salary_increment

\* Variants of ExtraSalaryTotal: counting from step 1, without the increment,
\* and without the vesting period.
ExtraSalaryTotal_fromOne(c, k) ==
    (k + 1) * c.salary_increment * MonthsPerYear * c.vesting_years

ExtraSalaryTotal_noIncrement(c, k) == k * MonthsPerYear * c.vesting_years

ExtraSalaryTotal_noVesting(c, k) == k * c.salary_increment * MonthsPerYear

\* extra_salary_total = i * salary_increment * 12 * vesting_years
ExtraSalaryTotal(c, k) == k * c.salary_increment * MonthsPerYear * c.vesting_years

\* Variant of EquityValue: the extra salary added instead of subtracted.
EquityValue_added(bev, extra) == bev + extra

\* equity_value = base_equity_value - extra_salary_total
EquityValue(bev, extra) == bev - extra

\* Variant of NQeso: floor division instead of round(... / ...).
NQeso_floorDiv(ev, price) == ev \div price

\* n_qeso = round(equity_value / share_price)
NQeso(ev, price) == PyRound(PyTrueDivII(ev, price))

\* perc_qeso = n_qeso / total_shares
PercQeso(n, total) == PyTrueDivIF(n, total)

\* Variant of EmptyResults: the list of the previous call is reused.
EmptyResults_stale == results

\* results = []
EmptyResults == <<>>

\* The dictionary appended to results.
Row(salary, n, perc) == [Salary |-> salary, N_qeso |-> n, perc_qeso |-> perc]

(***************************************************************************)
(* The driver: for share_price in np.arange(180, 260, 10).                 *)
(***************************************************************************)
SweepStart == 180

SweepStop == 260

SweepStep == 10

\* Variant of ARange: stop is included.
ARange_inclusive(start, stop, step) ==
    LET n == IF stop >= start THEN (stop - start) \div step + 1 ELSE 0
    IN  [k \in 1..n |-> start + (k - 1) * step]

\* np.arange(start, stop, step): start, start+step, ... below stop.
ARange(start, stop, step) ==
    LET n == IF stop > start THEN (stop - start + step - 1) \div step ELSE 0
    IN  [k \in 1..n |-> start + (k - 1) * step]

Sweep == ARange(SweepStart, SweepStop, SweepStep)

(***************************************************************************)
(* The configurations the function is exercised with.                      *)
(***************************************************************************)
MaxShares == 3

MaxSteps == 3

BaseSalaries == {0, DefaultBaseSalary}

PercentTenths == {-8, 0, 8, 9}

SharePrices == {-8, 0, 8, DefaultSharePrice}

SalaryIncrements == {-1, 0, 1}

VestingYears == {-1, 0, 1, DefaultVestingYears}

BoundedConfigs ==
    [base_salary      : BaseSalaries,
     base_shares      : -1..MaxShares,
     base_percentage  : {FloatLiteral(t, 10) : t \in PercentTenths},
     share_price      : SharePrices,
     salary_increment : SalaryIncrements,
     steps            : -1..MaxSteps,
     vesting_years    : VestingYears]

SweepConfigs == {DefaultConfig(Sweep[k]) : k \in DOMAIN Sweep}

Configs == BoundedConfigs \cup SweepConfigs

NoLocals ==
    /\ base_equity_value = 0
    /\ total_shares = FloatZero
    /\ i = 0
    /\ results = <<>>

NoDriver ==
    /\ df = <<>>
    /\ share_price = 0
    /\ idx = 0
    /\ dpc = "none"
    /\ out = <<>>

Pending(c) == [args |-> c, state |-> "running", table |-> <<>>]

\* The last entry of calls, with the outcome of the call filled in.
Settle(state, table) ==
    [calls EXCEPT ![Len(calls)] = [@ EXCEPT !.state = state, !.table = table]]

\* Lines 33-40: the statements before the loop.  0.0 as base_percentage raises
\* ZeroDivisionError at line 37.
Enter ==
    /\ pc = "entry"
    /\ base_equity_value' = BaseEquityValue(cfg)
    /\ IF IsZero(cfg.base_percentage)
       THEN /\ pc' = "raised"
            /\ calls' = Settle("raised", <<>>)
            /\ UNCHANGED <<total_shares, i, results>>
       ELSE /\ total_shares' = TotalShares(cfg)
            /\ results' = EmptyResults
            /\ i' = 0
            /\ pc' = "loop"
            /\ UNCHANGED calls
    /\ UNCHANGED <<cfg, driver>>

\* Lines 42-66: one iteration of the loop.  A zero share_price raises
\* ZeroDivisionError at line 54, a zero total_shares at line 57.
LoopStep ==
    /\ pc = "loop"
    /\ InRange(i, cfg.steps)
    /\ IF cfg.share_price = 0 \/ IsZero(total_shares)
       THEN /\ pc' = "raised"
            /\ calls' = Settle("raised", <<>>)
            /\ UNCHANGED <<i, results>>
       ELSE LET salary == Salary(cfg, i)
                extra_salary_total == ExtraSalaryTotal(cfg, i)
                equity_value == EquityValue(base_equity_value, extra_salary_total)
                n_qeso == NQeso(equity_value, cfg.share_price)
                perc_qeso == PercQeso(n_qeso, total_shares)
            IN  /\ results' = Append(results, Row(salary, n_qeso, perc_qeso))
                /\ i' = i + 1
                /\ UNCHANGED <<pc, calls>>
    /\ UNCHANGED <<cfg, base_equity_value, total_shares, driver>>

\* Line 69, when range(steps) is exhausted: return pd.DataFrame(results).  df
\* holds the table returned (line 74 assigns it to df).
Return ==
    /\ pc = "loop"
    /\ ~InRange(i, cfg.steps)
    /\ pc' = "returned"
    /\ df' = results
    /\ calls' = Settle("returned", results)
    /\ UNCHANGED <<cfg, locals, share_price, idx, dpc, out>>

\* Line 72: the for statement takes the next element of the sweep, or ends.
ForNext ==
    /\ dpc = "for"
    /\ IF idx < Len(Sweep)
       THEN /\ idx' = idx + 1
            /\ share_price' = Sweep[idx + 1]
            /\ dpc' = "header"
       ELSE /\ dpc' = "done"
            /\ UNCHANGED <<idx, share_price>>
    /\ UNCHANGED <<cfg, pc, locals, df, out, calls>>

\* Line 73: print(f"Share price: {share_price} SEK")
PrintHeader ==
    /\ dpc = "header"
    /\ out' = Append(out, [kind |-> "header", price |-> share_price])
    /\ dpc' = "call"
    /\ UNCHANGED <<cfg, pc, locals, df, share_price, idx, calls>>

\* Line 74: compute_salary_equity_tradeoff(share_price=share_price) is called.
\* The price is a NumPy int64; at these magnitudes its products and quotients
\* are those of the Python int.
Call ==
    /\ dpc = "call"
    /\ cfg' = DefaultConfig(share_price)
    /\ pc' = "entry"
    /\ calls' = Append(calls, Pending(cfg'))
    /\ dpc' = "incall"
    /\ UNCHANGED <<locals, df, share_price, idx, out>>

\* Line 75: print(df.to_string(index=False)), once the call has returned.
PrintTable ==
    /\ dpc = "incall"
    /\ pc = "returned"
    /\ out' = Append(out, [kind |-> "table", rows |-> df])
    /\ pc' = "idle"
    /\ dpc' = "blank"
    /\ UNCHANGED <<cfg, locals, df, share_price, idx, calls>>

\* Line 76: print("\n")
PrintBlank ==
    /\ dpc = "blank"
    /\ out' = Append(out, [kind |-> "blank"])
    /\ dpc' = "for"
    /\ UNCHANGED <<cfg, pc, locals, df, share_price, idx, calls>>

\* The function called once, with any of the configurations.
Init ==
    /\ cfg \in Configs
    /\ pc = "entry"
    /\ calls = <<Pending(cfg)>>
    /\ NoLocals
    /\ NoDriver

Next == Enter \/ LoopStep \/ Return

Spec == Init /\ [][Next]_vars

\* The module executed from its first line.
DriverInit ==
    /\ cfg = DefaultConfig(DefaultSharePrice)
    /\ pc = "idle"
    /\ calls = <<>>
    /\ NoLocals
    /\ df = <<>>
    /\ share_price = 0
    /\ idx = 0
    /\ dpc = "for"
    /\ out = <<>>

DriverNext ==
    \/ ForNext \/ PrintHeader \/ Call
    \/ Enter \/ LoopStep \/ Return
    \/ PrintTable \/ PrintBlank

DriverSpec == DriverInit /\ [][DriverNext]_vars

\* The function called several times in a row by one caller.
MaxCalls == 3

RepeatConfigs ==
    [base_salary      : {DefaultBaseSalary},
     base_shares      : {0, 3},
     base_percentage  : {DefaultBasePercentage},
     share_price      : {8, DefaultSharePrice},
     salary_increment : {1},
     steps            : {2},
     vesting_years    : {1}]

\* A further call, after the previous one returned or raised.
CallAgain ==
    /\ pc \in {"returned", "raised"}
    /\ Len(calls) < MaxCalls
    /\ \E c \in RepeatConfigs :
          /\ cfg' = c
          /\ calls' = Append(calls, Pending(c))
    /\ pc' = "entry"
    /\ UNCHANGED <<locals, driver>>

RepeatInit ==
    /\ cfg \in RepeatConfigs
    /\ pc = "entry"
    /\ calls = <<Pending(cfg)>>
    /\ NoLocals
    /\ NoDriver

RepeatNext == Enter \/ LoopStep \/ Return \/ CallAgain

RepeatSpec == RepeatInit /\ [][RepeatNext]_vars

(***************************************************************************)
(* Properties.                                                             *)
(***************************************************************************)
\* The configurations the specification calls valid.
Valid(c) == c.share_price # 0 /\ ~IsZero(c.base_percentage)

Max(a, b) == IF a >= b THEN a ELSE b

Abs(a) == IF a < 0 THEN -a ELSE a

LastCall == calls[Len(calls)]

\* The inputs on which the code raises ZeroDivisionError: line 37 divides by
\* base_percentage before the loop, lines 54 and 57 divide by share_price and
\* by total_shares in the first iteration.
Faults(c) ==
    \/ IsZero(c.base_percentage)
    \/ (c.steps >= 1 /\ (c.share_price = 0 \/ c.base_shares = 0))

\* C1 as stated: every configuration with share_price # 0 and base_percentage # 0
\* completes without a fault and returns exactly `steps` rows.
C1_Original ==
    Valid(cfg) => /\ pc # "raised"
                  /\ pc = "returned" => Len(df) = cfg.steps

\* C1, amended: with share_price # 0, base_percentage # 0 and base_shares # 0 the
\* call runs to its return without a fault (the loop counter only moves up to
\* its bound) and returns max(steps, 0) rows, row k (counted from 0) being the
\* row of step k.
C1_RowCount ==
    (Valid(cfg) /\ cfg.base_shares # 0) =>
        /\ pc # "raised"
        /\ pc = "loop" => i >= 0 /\ i <= Max(cfg.steps, 0) /\ Len(results) = i
        /\ pc = "returned" =>
              /\ Len(df) = Max(cfg.steps, 0)
              /\ LastCall.state = "returned" /\ LastCall.table = df
              /\ \A k \in 1..Len(df) :
                    df[k].Salary = cfg.base_salary + (k - 1) * cfg.salary_increment

C1_Witness ==
    /\ pc = "returned" /\ Valid(cfg) /\ cfg.base_shares # 0
    /\ cfg.steps = MaxSteps /\ Len(df) = MaxSteps
    /\ cfg.salary_increment # 0

\* x is y or one of the two floats next to y (one unit in the last place of y).
WithinOneUlp(x, y) ==
    \/ x = y
    \/ /\ x.s = y.s
       /\ \/ x.e = y.e /\ (BigInc(x.m) = y.m \/ BigInc(y.m) = x.m)
          \/ x.e = y.e - 1 /\ y.m = BigPow2(52) /\ BigGeq(BigInc(BigInc(x.m)), BigPow2(53))
          \/ x.e = y.e + 1 /\ x.m = BigPow2(52) /\ BigInc(y.m) = BigPow2(53)

\* C2 as stated: row 0 of a returned table is exactly the base case, perc_qeso
\* being exactly base_percentage, and with steps = 1 it is the only row.
C2_Original ==
    (pc = "returned" /\ Valid(cfg) /\ cfg.steps >= 1) =>
        /\ df[1].Salary = cfg.base_salary
        /\ df[1].N_qeso = cfg.base_shares
        /\ df[1].perc_qeso = cfg.base_percentage
        /\ cfg.steps = 1 => Len(df) = 1

\* C2, amended: row 0 has Salary = base_salary and N_qeso = base_shares exactly,
\* and perc_qeso = base_shares / (base_shares / base_percentage), two float
\* divisions, which is base_percentage or a float next to it.
C2_BaseRow ==
    (pc = "returned" /\ Valid(cfg) /\ cfg.steps >= 1) =>
        /\ df[1].Salary = cfg.base_salary
        /\ df[1].N_qeso = cfg.base_shares
        /\ WithinOneUlp(df[1].perc_qeso, cfg.base_percentage)
        /\ cfg.steps = 1 => Len(df) = 1

C2_Witness ==
    /\ pc = "returned" /\ Valid(cfg) /\ cfg.steps = 1 /\ Len(df) = 1
    /\ cfg.salary_increment # 0 /\ cfg.vesting_years # 0
    /\ df[1].perc_qeso # cfg.base_percentage

\* C3 as stated: with share_price # 0, base_percentage # 0 and salary_increment > 0,
\* from each row to the next Salary grows by salary_increment and N_qeso does
\* not grow.
C3_Original ==
    (Valid(cfg) /\ cfg.salary_increment > 0) =>
        \A k \in 1..(Len(results) - 1) :
            /\ results[k + 1].Salary = results[k].Salary + cfg.salary_increment
            /\ results[k + 1].N_qeso <= results[k].N_qeso

\* C3, amended: the same, for share_price and vesting_years not of opposite
\* signs (share_price * vesting_years >= 0).
C3_Monotone ==
    (Valid(cfg) /\ cfg.salary_increment > 0
                /\ cfg.share_price * cfg.vesting_years >= 0) =>
        \A k \in 1..(Len(results) - 1) :
            /\ results[k + 1].Salary = results[k].Salary + cfg.salary_increment
            /\ results[k + 1].Salary > results[k].Salary
            /\ results[k + 1].N_qeso <= results[k].N_qeso

C3_Witness ==
    /\ Valid(cfg) /\ cfg.salary_increment > 0
    /\ cfg.share_price > 0 /\ cfg.vesting_years > 0
    /\ Len(results) = MaxSteps
    /\ \A k \in 1..(Len(results) - 1) : results[k + 1].N_qeso < results[k].N_qeso

\* C4 as stated: a division fault happens only when share_price = 0 or
\* base_percentage = 0.
C4_Original ==
    pc = "raised" => (cfg.share_price = 0 \/ IsZero(cfg.base_percentage))

\* C4, amended: a division fault happens only when share_price = 0,
\* base_percentage = 0 or base_shares = 0 (which makes total_shares 0), and
\* exactly on the inputs of Faults; the fault ends the call, nothing is
\* returned and nothing runs after it.
C4_FaultOnlyOnZero ==
    /\ pc = "raised" =>
          /\ cfg.share_price = 0 \/ IsZero(cfg.base_percentage) \/ cfg.base_shares = 0
          /\ Faults(cfg)
          /\ LastCall.state = "raised" /\ LastCall.table = <<>> /\ df = <<>>
          /\ ~ENABLED Next
    /\ pc = "returned" => ~Faults(cfg)

C4_Witness ==
    /\ pc = "raised" /\ Valid(cfg) /\ cfg.base_shares = 0 /\ cfg.steps >= 1

\* The decimal d / 10^4 is x rounded to four places, (2d-1)/20000 <= x < (2d+1)/20000,
\* for 1/2 <= x < 1, decided from t = floor(x * 2^16): Surely is sufficient for
\* it, Possibly necessary.
Floor16(x) == BigShiftRight(x.m, -x.e - 16)

SurelyRoundsTo(x, d) ==
    /\ x.s = 1 /\ x.e = -53
    /\ 20000 * Floor16(x) >= (2 * d - 1) * 2^16
    /\ 20000 * (Floor16(x) + 1) <= (2 * d + 1) * 2^16

PossiblyRoundsTo(x, d) ==
    /\ x.s = 1 /\ x.e = -53
    /\ 20000 * (Floor16(x) + 1) > (2 * d - 1) * 2^16
    /\ 20000 * Floor16(x) < (2 * d + 1) * 2^16

\* The state in which row 1 of the call with all the defaults exists.
DefaultRowOne == cfg = DefaultConfig(DefaultSharePrice) /\ Len(results) >= 2

C7_ZeroIncrement ==
    (Valid(cfg) /\ cfg.salary_increment = 0) =>
        \A k \in 1..Len(results) :
            /\ results[k].Salary = cfg.base_salary
            /\ results[k].N_qeso = cfg.base_shares
            /\ results[k].perc_qeso = results[1].perc_qeso

C7_Witness ==
    /\ Valid(cfg) /\ cfg.salary_increment = 0 /\ pc = "returned"
    /\ cfg.steps = MaxSteps /\ Len(df) = MaxSteps
    /\ cfg.vesting_years = DefaultVestingYears /\ cfg.base_shares = MaxShares

\* The integer nearest to num / den, exact ties to the even integer, in exact
\* integer arithmetic.
NearestEven(num, den) ==
    LET n   == IF den < 0 THEN -num ELSE num
        d   == Abs(den)
        fl  == (n - (n % d)) \div d
        rem == n % d
    IN  IF 2 * rem < d THEN fl
        ELSE IF 2 * rem > d THEN fl + 1
        ELSE IF fl % 2 = 0 THEN fl ELSE fl + 1

\* Salary and N_qeso of step k (counted from 0) as the specification computes
\* them, in exact integer arithmetic.
ReferenceSalary(c, k) == c.base_salary + k * c.salary_increment

ReferenceShares(c, k) ==
    NearestEven(c.base_shares * c.share_price
                  - k * c.salary_increment * 12 * c.vesting_years,
                c.share_price)

\* C9: every row is the reference row of its step: Salary and N_qeso are the
\* reference values, N_qeso being the nearest integer with ties to even, and
\* perc_qeso is N_qeso / (base_shares / base_percentage); N_qeso is negative
\* whenever the extra salary exceeds the base equity value by more than half a
\* share price.
C9_ReferenceRows ==
    /\ Len(results) > 0 =>
          total_shares = FloatDiv(IntToFloat(cfg.base_shares), cfg.base_percentage)
    /\ \A k \in 1..Len(results) :
          /\ results[k].Salary = ReferenceSalary(cfg, k - 1)
          /\ results[k].N_qeso = ReferenceShares(cfg, k - 1)
          /\ results[k].perc_qeso = FloatDiv(IntToFloat(results[k].N_qeso), total_shares)
          /\ (cfg.share_price > 0
                /\ 2 * ((k - 1) * cfg.salary_increment * 12 * cfg.vesting_years
                          - cfg.base_shares * cfg.share_price) > cfg.share_price)
             => results[k].N_qeso < 0

\* 2 * equity_value is an odd multiple of share_price: an exact tie.
IsTie(c, k) ==
    (2 * (c.base_shares * c.share_price
            - k * c.salary_increment * 12 * c.vesting_years)) % (2 * Abs(c.share_price))
        = Abs(c.share_price)

C9_Witness ==
    /\ Len(results) = MaxSteps
    /\ \E k \in 1..Len(results) :
          /\ IsTie(cfg, k - 1)
          /\ Abs(results[k].N_qeso * cfg.share_price)
                < Abs(cfg.base_shares * cfg.share_price
                        - (k - 1) * cfg.salary_increment * 12 * cfg.vesting_years)
    /\ \E k \in 1..Len(results) : results[k].N_qeso < 0

\* C10: for share_price > 0 the total of every row over the vesting period,
\* Salary * 12 * vesting_years + N_qeso * share_price, is within share_price / 2
\* of the total of the base case.
C10_TotalKept ==
    cfg.share_price > 0 =>
        \A k \in 1..Len(results) :
            2 * Abs(results[k].Salary * 12 * cfg.vesting_years
                      + results[k].N_qeso * cfg.share_price
                      - (cfg.base_salary * 12 * cfg.vesting_years
                           + cfg.base_shares * cfg.share_price))
                <= cfg.share_price

C10_Witness ==
    /\ cfg \in SweepConfigs /\ cfg.share_price = Sweep[1]
    /\ pc = "returned" /\ Len(df) = DefaultSteps
    /\ \E k \in 1..Len(df) :
          df[k].Salary * 12 * cfg.vesting_years + df[k].N_qeso * cfg.share_price
              # cfg.base_salary * 12 * cfg.vesting_years
                  + cfg.base_shares * cfg.share_price

\* C5: the driver runs the 8 prices 180, 190, ..., 250 in this order; what it
\* has printed is, scenario after scenario, the header of the price, the table
\* of the one call made with that price and the defaults (7 rows), and a blank;
\* a scenario is complete before the next one starts.
C5_DriverSweep ==
    /\ Len(Sweep) = 8
    /\ \A k \in 1..Len(Sweep) : Sweep[k] = 180 + 10 * (k - 1)
    /\ idx <= 8 /\ Len(calls) <= idx /\ Len(calls) >= idx - 1
    /\ \A k \in 1..Len(calls) : calls[k].args = DefaultConfig(Sweep[k])
    /\ \A k \in 1..(Len(calls) - 1) : calls[k].state = "returned"
    /\ \A n \in 1..Len(out) :
          LET k == (n - 1) \div 3 + 1
          IN  /\ k <= idx
              /\ (n - 1) % 3 = 0 => out[n] = [kind |-> "header", price |-> Sweep[k]]
              /\ (n - 1) % 3 = 1 => /\ out[n].kind = "table"
                                    /\ out[n].rows = calls[k].table
                                    /\ calls[k].state = "returned"
                                    /\ Len(out[n].rows) = 7
              /\ (n - 1) % 3 = 2 => out[n] = [kind |-> "blank"]
    /\ dpc = "header" => Len(out) = 3 * (idx - 1) /\ Len(calls) = idx - 1
    /\ dpc \in {"call", "incall"} => Len(out) = 3 * (idx - 1) + 1
    /\ dpc = "blank" => Len(out) = 3 * (idx - 1) + 2
    /\ dpc = "for" => Len(out) = 3 * idx /\ Len(calls) = idx
    /\ dpc = "done" => Len(out) = 3 * 8 /\ Len(calls) = 8 /\ idx = 8
    /\ pc # "raised"

C5_Witness == dpc = "done" /\ Len(out) = 24 /\ out[23].rows = df /\ Len(df) = 7

\* C8: two calls with the same arguments end the same way and return the same
\* table, whatever calls ran before or between them; every call derives its
\* locals from its own arguments.
C8_RepeatedCalls ==
    /\ \A a, b \in 1..Len(calls) :
          (calls[a].args = calls[b].args
             /\ calls[a].state # "running" /\ calls[b].state # "running")
          => calls[a].state = calls[b].state /\ calls[a].table = calls[b].table
    /\ pc = "loop" => /\ base_equity_value = BaseEquityValue(cfg)
                      /\ total_shares = TotalShares(cfg)
                      /\ Len(results) = i

C8_Witness ==
    /\ Len(calls) = 3
    /\ calls[1].args = calls[3].args /\ calls[2].args # calls[1].args
    /\ calls[2].state = "returned" /\ calls[3].state = "returned"
    /\ Len(calls[3].table) = 2 /\ calls[3].table = calls[1].table
    /\ calls[2].table # calls[1].table
====
